---- MODULE Spec2Model ----
(***************************************************************************)
(* Model of the CSV ingestion of wadaily-streamlined:                      *)
(*   src/functions/parseCSV.js      parseAndUpdateDays,                    *)
(*                                  parseAndUpdateSchedules                *)
(*   src/pages/api/upload/days.js, schedules.js   the upload handlers      *)
(*                                                                         *)
(* A JavaScript string is a sequence of tokens.  The substrings the code   *)
(* looks for (digits, "/", ":", " ", "(", ")", "-", " - US", "Block ",     *)
(* "Semester", "US Day ", "ORPHAN", "AM", "PM") are tokens of their own,   *)
(* so two strings are equal exactly when their token sequences are equal.  *)
(*                                                                         *)
(* The requests modelled have passed the handler's checks (POST, text/csv, *)
(* a body, the bearer token), dbConnect() has succeeded, and stdout is a   *)
(* terminal, so that the progress lines can be written.                    *)
(***************************************************************************)
EXTENDS Integers, Sequences, FiniteSets, TLC

(***************************************************************************)
(* Strings                                                                 *)
(***************************************************************************)
Digits == {"0", "1", "2", "3", "4", "5", "6", "7", "8", "9"}

DigitVal(d) ==
    CASE d = "0" -> 0 [] d = "1" -> 1 [] d = "2" -> 2 [] d = "3" -> 3
      [] d = "4" -> 4 [] d = "5" -> 5 [] d = "6" -> 6 [] d = "7" -> 7
      [] d = "8" -> 8 [] d = "9" -> 9

DigitChar(n) ==
    CASE n = 0 -> "0" [] n = 1 -> "1" [] n = 2 -> "2" [] n = 3 -> "3"
      [] n = 4 -> "4" [] n = 5 -> "5" [] n = 6 -> "6" [] n = 7 -> "7"
      [] n = 8 -> "8" [] n = 9 -> "9"

UpperLetters == {"A", "B", "C", "D", "E", "F", "X"}

\* String.prototype.includes with a one-token needle
Includes(s, tok) == \E i \in 1..Len(s) : s[i] = tok

\* index of the first token of s equal to tok, 0 when there is none
IndexOf(s, tok) ==
    IF Includes(s, tok)
    THEN CHOOSE i \in 1..Len(s) : s[i] = tok /\ \A j \in 1..(i - 1) : s[j] # tok
    ELSE 0

\* index of the last token of s equal to tok, 0 when there is none
LastIndexOf(s, tok) ==
    IF Includes(s, tok)
    THEN CHOOSE i \in 1..Len(s) : s[i] = tok /\ \A j \in (i + 1)..Len(s) : s[j] # tok
    ELSE 0

\* String.prototype.split with a one-token separator
RECURSIVE Split(_, _)
Split(s, sep) ==
    LET i == IndexOf(s, sep)
    IN  IF i = 0 THEN <<s>>
        ELSE <<SubSeq(s, 1, i - 1)>> \o Split(SubSeq(s, i + 1, Len(s)), sep)

\* s.replace(tok, '') : removes the first occurrence only (no g flag)
RemoveFirst(s, tok) ==
    LET i == IndexOf(s, tok)
    IN  IF i = 0 THEN s ELSE SubSeq(s, 1, i - 1) \o SubSeq(s, i + 1, Len(s))

ToUpperTok(t) ==
    CASE t = "am" -> "AM" [] t = "pm" -> "PM" [] OTHER -> t

\* String.prototype.toUpperCase
ToUpperCase(s) == [i \in 1..Len(s) |-> ToUpperTok(s[i])]

\* the leading run of digits of s
RECURSIVE LeadingDigits(_)
LeadingDigits(s) ==
    IF s = <<>> \/ Head(s) \notin Digits THEN <<>>
    ELSE <<Head(s)>> \o LeadingDigits(Tail(s))

RECURSIVE DigitsValue(_, _)
DigitsValue(ds, acc) ==
    IF ds = <<>> THEN acc ELSE DigitsValue(Tail(ds), 10 * acc + DigitVal(Head(ds)))

\* parseInt on a string that starts with a digit
ParseInt(s) == DigitsValue(LeadingDigits(s), 0)

\* template-literal conversion of a non-negative integer
RECURSIVE NumToString(_)
NumToString(n) ==
    IF n < 10 THEN <<DigitChar(n)>>
    ELSE NumToString(n \div 10) \o <<DigitChar(n % 10)>>

(***************************************************************************)
(* Dates                                                                   *)
(***************************************************************************)
IsLeap(y) == (y % 4 = 0 /\ y % 100 # 0) \/ y % 400 = 0

\* m is a month index 0..11
DaysInMonth(y, m) ==
    CASE m = 1 -> IF IsLeap(y) THEN 29 ELSE 28
      [] m \in {3, 5, 8, 10} -> 30
      [] OTHER -> 31

\* new Date(year, monthIndex, day): months and days out of range carry over
RECURSIVE MakeDate(_, _, _)
MakeDate(y, m, d) ==
    IF m > 11 THEN MakeDate(y + 1, m - 12, d)
    ELSE IF m < 0 THEN MakeDate(y - 1, m + 12, d)
    ELSE IF d > DaysInMonth(y, m) THEN MakeDate(y, m + 1, d - DaysInMonth(y, m))
    ELSE IF d < 1
         THEN LET py == IF m = 0 THEN y - 1 ELSE y
                  pm == IF m = 0 THEN 11 ELSE m - 1
              IN  MakeDate(py, pm, d + DaysInMonth(py, pm))
    ELSE [year |-> y, month |-> m, date |-> d]

parseVeracrossDate(date) ==
    LET dateArray == [i \in 1..Len(Split(date, "/")) |-> ParseInt(Split(date, "/")[i])]
    IN  MakeDate(dateArray[3] + 2000, dateArray[1] - 1, dateArray[2])

generateWAFormatDate(date) ==
    NumToString(date.month + 1) \o <<"-">> \o NumToString(date.date)
        \o <<"-">> \o NumToString(date.year % 100)

(***************************************************************************)
(* CSV rows.  csv-parse (columns: true) gives every row the columns of the *)
(* header; a column the header lacks reads as undefined.                   *)
(***************************************************************************)
Undefined == <<"<undefined>">>

CSVDay(date, caption) ==
    [EventDate |-> date, EventCaption |-> caption,
     Description |-> Undefined, EndTime |-> Undefined, StartTime |-> Undefined,
     BlockSchedule |-> Undefined, Day |-> Undefined]

CSVEvent(description, endTime, startTime, blockSchedule, day) ==
    [EventDate |-> Undefined, EventCaption |-> Undefined,
     Description |-> description, EndTime |-> endTime, StartTime |-> startTime,
     BlockSchedule |-> blockSchedule, Day |-> day]

(***************************************************************************)
(* parseAndUpdateDays: the mapping of one row                              *)
(***************************************************************************)
\* /\((.*)\)/ : from the first "(" to the last ")" after it
CaptionMatch(caption) ==
    LET i == IndexOf(caption, "(")
        j == LastIndexOf(caption, ")")
    IN  IF i > 0 /\ j > i THEN [found |-> TRUE, group |-> SubSeq(caption, i + 1, j - 1)]
        ELSE [found |-> FALSE, group |-> <<>>]

\* day['Event Caption'] after lines 80-84
EventCaption(day) ==
    IF CaptionMatch(day.EventCaption).found
    THEN CaptionMatch(day.EventCaption).group
    ELSE day.EventCaption

\* new Days({schedule, date})
dayDocument(day) ==
    [schedule |-> EventCaption(day),
     date |-> generateWAFormatDate(parseVeracrossDate(day.EventDate))]

\* a method call on an undefined column is a TypeError
DayRowThrows(day) == day.EventCaption = Undefined \/ day.EventDate = Undefined

\* line 67
IsSemester(day) == Includes(day.EventCaption, "Semester")

(***************************************************************************)
(* parseAndUpdateSchedules: identifier, event, grouping, sort              *)
(***************************************************************************)
ORPHAN == <<"ORPHAN">>

\* /(\d+)/ : the first run of digits of s, <<>> when s has no digit
RECURSIVE FirstDigitRun(_)
FirstDigitRun(s) ==
    IF s = <<>> THEN <<>>
    ELSE IF Head(s) \in Digits THEN LeadingDigits(s)
    ELSE FirstDigitRun(Tail(s))

generateScheduleIdentifier(event) ==
    IF event.Day # <<"-">>
    THEN IF FirstDigitRun(event.Day) = <<>> THEN ORPHAN
         ELSE <<"US Day ">> \o FirstDigitRun(event.Day)
    ELSE event.BlockSchedule

\* /Block ([A-Z])/ : the letter of the first "Block <Letter>", <<>> when none
RECURSIVE BlockLetter(_)
BlockLetter(s) ==
    IF Len(s) < 2 THEN <<>>
    ELSE IF s[1] = "Block " /\ s[2] \in UpperLetters THEN <<s[2]>>
    ELSE BlockLetter(Tail(s))

generateScheduleEvent(event) ==
    [name |-> RemoveFirst(event.Description, " - US"),
     code |-> IF BlockLetter(event.Description) # <<>>
              THEN BlockLetter(event.Description) ELSE event.Description,
     startTime |-> ToUpperCase(event.StartTime),
     endTime |-> ToUpperCase(event.EndTime)]

EventRowThrows(event) ==
    \/ event.Description = Undefined
    \/ event.StartTime = Undefined
    \/ event.EndTime = Undefined

\* index of the group called identifier in the sequence of groups, 0 when none
GroupIndex(schedules, identifier) ==
    IF \E i \in 1..Len(schedules) : schedules[i].name = identifier
    THEN CHOOSE i \in 1..Len(schedules) : schedules[i].name = identifier
    ELSE 0

\* lines 209-229; schedules is the object of groups in insertion order
RECURSIVE GroupEvents(_, _)
GroupEvents(events, schedules) ==
    IF events = <<>> THEN schedules
    ELSE LET event == Head(events)
             identifier == generateScheduleIdentifier(event)
             i == GroupIndex(schedules, identifier)
         IN  IF i > 0
             THEN GroupEvents(Tail(events),
                      [schedules EXCEPT ![i].schedule =
                           Append(@, generateScheduleEvent(event))])
             ELSE GroupEvents(Tail(events),
                      Append(schedules,
                          [name |-> identifier,
                           friendlyName |-> RemoveFirst(identifier, " - US"),
                           schedule |-> <<generateScheduleEvent(event)>>]))

\* lines 236-246: the hour and the minute the comparator derives from startTime
SortHour(startTime) ==
    LET aTime == Split(startTime, " ")
        aHour == ParseInt(Split(aTime[1], ":")[1])
    IN  IF Len(aTime) > 1 /\ aTime[2] = <<"PM">> /\ aHour # 12 THEN aHour + 12 ELSE aHour

SortMinute(startTime) == ParseInt(Split(Split(startTime, " ")[1], ":")[2])

\* lines 248-249: the comparator
CompareEvents(a, b) ==
    IF SortHour(a.startTime) # SortHour(b.startTime)
    THEN SortHour(a.startTime) - SortHour(b.startTime)
    ELSE SortMinute(a.startTime) - SortMinute(b.startTime)

\* e inserted after every element that does not compare greater (stable)
RECURSIVE InsertSorted(_, _)
InsertSorted(sorted, e) ==
    IF sorted = <<>> THEN <<e>>
    ELSE IF CompareEvents(Head(sorted), e) > 0 THEN <<e>> \o sorted
    ELSE <<Head(sorted)>> \o InsertSorted(Tail(sorted), e)

\* Array.prototype.sort with CompareEvents (stable)
RECURSIVE SortSchedule(_)
SortSchedule(events) ==
    IF events = <<>> THEN <<>>
    ELSE InsertSorted(SortSchedule(SubSeq(events, 1, Len(events) - 1)),
                      events[Len(events)])

(***************************************************************************)
(* Inputs                                                                  *)
(***************************************************************************)
\* rows of all the request bodies in flight together
MaxRows == 2

Calls == {1, 2}

Date_9_5_24 == <<"9", "/", "5", "/", "2", "4">>
Date_09_05_24 == <<"0", "9", "/", "0", "5", "/", "2", "4">>
Date_2_30_24 == <<"2", "/", "3", "0", "/", "2", "4">>

DayRows ==
    { CSVDay(Date_9_5_24, <<"US Day ", "2">>),
      CSVDay(Date_09_05_24, <<"US Day ", "2", " ", "(", "X Day", " - US", ")">>),
      CSVDay(Date_2_30_24, <<"US Day ", "3">>),
      CSVDay(Date_9_5_24, <<"Semester", " 1 Begins">>) }

Time(h, m, half) == h \o <<":">> \o m \o <<" ", half>>

EventRows ==
    { CSVEvent(<<"Block ", "C", " - US">>, Time(<<"1">>, <<"0", "0">>, "AM"),
               Time(<<"1", "2">>, <<"3", "0">>, "AM"), <<"-">>, <<"US D", "4">>),
      CSVEvent(<<"Lunch">>, Time(<<"9">>, <<"4", "5">>, "am"),
               Time(<<"9">>, <<"0", "0">>, "am"), <<"-">>, <<"US D", "4">>),
      CSVEvent(<<"Block ", "A", " - US">>, Time(<<"2">>, <<"0", "0">>, "PM"),
               Time(<<"1">>, <<"1", "5">>, "PM"), <<"X Day", " - US">>, <<"-">>),
      CSVEvent(<<"Assembly">>, Time(<<"1">>, <<"0", "0">>, "PM"),
               Time(<<"1", "2">>, <<"0", "0">>, "PM"), <<"-">>, <<"US DX">>),
      CSVEvent(<<"Clubs">>, Time(<<"4">>, <<"0", "0">>, "PM"),
               Time(<<"3">>, <<"0", "0">>, "PM"), ORPHAN, <<"-">>) }

SeqsUpTo(S, n) == UNION { [1..k -> S] : k \in 0..n }

\* the parsed request bodies: rows that all have the columns of one header.
\* A body with the other route's header is one row long: its first row throws.
DayBodies == SeqsUpTo(DayRows, MaxRows) \cup {<<r>> : r \in EventRows}

EventBodies == SeqsUpTo(EventRows, MaxRows) \cup {<<r>> : r \in DayRows}

\* the documents a collection may hold before the uploads: none, the first, or both
OldDays ==
    << [schedule |-> <<"US Day ", "1">>, date |-> <<"9", "-", "5", "-", "2", "4">>],
       [schedule |-> <<"US Day ", "1">>, date |-> <<"3", "-", "1", "-", "2", "4">>] >>

OldSchedules ==
    << [name |-> <<"US Day ", "4">>, friendlyName |-> <<"US Day ", "4">>, schedule |-> <<>>],
       [name |-> <<"X Day", " - US">>, friendlyName |-> <<"X Day">>, schedule |-> <<>>] >>

(***************************************************************************)
(* State                                                                   *)
(***************************************************************************)
VARIABLES
    endpoint,       \* "days" or "schedules": the upload route the requests go to
    collection,     \* the documents of Days (or Schedules), in natural order
    body,           \* body[c]: the rows csv-parse gives for request c
    pc,             \* "idle", "await" (line 116/277), "timer" (line 117/278), "done", "failed"
    schedules,      \* the groups of parseAndUpdateSchedules, after the sort
    ops,            \* the store operations of a call: save() and findOneAndUpdate()
    promises,       \* the array promises
    current,        \* the operation whose promise the loop awaits
    initialLength,
    reports,        \* the progress lines written so far
    summary,        \* the N of the final "All N ... saved", -1 before
    response,       \* what the handler sent
    pred            \* pred[c]: the calls that had ended when c started

vars == <<endpoint, collection, body, pc, schedules, ops, promises, current,
          initialLength, reports, summary, response, pred>>

KeyOf(doc) == IF endpoint = "days" THEN doc.date ELSE doc.name

NoResponse == [status |-> 0, success |-> FALSE, warnings |-> <<>>]

Init ==
    /\ endpoint \in {"days", "schedules"}
    /\ \E n \in 0..2 :
          collection = SubSeq(IF endpoint = "days" THEN OldDays ELSE OldSchedules, 1, n)
    /\ body = [c \in Calls |-> <<>>]
    /\ pc = [c \in Calls |-> "idle"]
    /\ schedules = [c \in Calls |-> <<>>]
    /\ ops = [c \in Calls |-> <<>>]
    /\ promises = [c \in Calls |-> <<>>]
    /\ current = [c \in Calls |-> 0]
    /\ initialLength = [c \in Calls |-> 0]
    /\ reports = [c \in Calls |-> <<>>]
    /\ summary = [c \in Calls |-> -1]
    /\ response = [c \in Calls |-> NoResponse]
    /\ pred = [c \in Calls |-> {}]

(***************************************************************************)
(* The store: a collection with a unique index on the natural key          *)
(***************************************************************************)
HasKey(coll, key) == \E i \in 1..Len(coll) : KeyOf(coll[i]) = key

\* insert-one: the outcome and the collection after it
InsertOne(coll, doc) ==
    IF HasKey(coll, KeyOf(doc))
    THEN [result |-> "dup", coll |-> coll]
    ELSE [result |-> "ok", coll |-> Append(coll, doc)]

\* $set of the fields of update on a document
SetFields(doc, update) ==
    [f \in DOMAIN doc |-> IF f \in DOMAIN update THEN update[f] ELSE doc[f]]

\* find-one-and-update by key: the first match gets the fields, no upsert
FindOneAndUpdate(coll, key, update) ==
    IF HasKey(coll, key)
    THEN LET i == CHOOSE i \in 1..Len(coll) :
                     KeyOf(coll[i]) = key /\ \A j \in 1..(i - 1) : KeyOf(coll[j]) # key
         IN  [coll EXCEPT ![i] = SetFields(@, update)]
    ELSE coll

(***************************************************************************)
(* The batch of a call                                                     *)
(***************************************************************************)
\* lines 65-109: the documents saved, in order, up to a row that throws
RECURSIVE DaysBatch(_)
DaysBatch(days) ==
    IF days = <<>> THEN [threw |-> FALSE, docs |-> <<>>]
    ELSE IF DayRowThrows(Head(days)) THEN [threw |-> TRUE, docs |-> <<>>]
    ELSE LET rest == DaysBatch(Tail(days))
         IN  IF IsSemester(Head(days)) THEN rest
             ELSE [rest EXCEPT !.docs = <<dayDocument(Head(days))>> \o @]

\* lines 209-250: the groups, each with its events sorted
SortedSchedules(events) ==
    LET groups == GroupEvents(events, <<>>)
    IN  [i \in 1..Len(groups) |-> [groups[i] EXCEPT !.schedule = SortSchedule(@)]]

\* the two mappings, tabulated over the request bodies
DaysBatchOf == [rows \in DayBodies |-> DaysBatch(rows)]

SortedSchedulesOf ==
    [rows \in EventBodies |->
        IF \E i \in 1..Len(rows) : EventRowThrows(rows[i]) THEN <<>>
        ELSE SortedSchedules(rows)]

\* lines 232-270: the groups that get a save()
SavedSchedules(groups) == groups

\* FallbackUpdate with the filter passed where the update belongs
FallbackUpdate_FilterOnly(doc) ==
    IF endpoint = "days" THEN [date |-> doc.date] ELSE [name |-> doc.name]

\* the update the .catch of a save() enqueues (lines 98 and 260)
FallbackUpdate(doc) ==
    IF endpoint = "days" THEN [schedule |-> doc.schedule] ELSE doc

\* a save() of doc, sent when it is called
SaveOp(doc) ==
    [kind |-> "insert", doc |-> doc, state |-> "sent", result |-> "none", origin |-> 0]

\* UpdateOp writing a document whose schedule was never filled in
UpdateOp_EmptySchedule(op, i) ==
    [kind |-> "update", doc |-> [op.doc EXCEPT !.schedule = <<>>], state |-> "queued",
     result |-> "none", origin |-> i]

\* the findOneAndUpdate() for the document of save() number i: a query, not sent yet
UpdateOp(op, i) ==
    [kind |-> "update", doc |-> op.doc, state |-> "queued", result |-> "none", origin |-> i]

Entry(id, label) == [op |-> id, label |-> label]

\* lines 285-287
Warnings(groups) ==
    IF GroupIndex(groups, ORPHAN) > 0
    THEN groups[GroupIndex(groups, ORPHAN)].schedule
    ELSE <<>>

Failure == [status |-> 500, success |-> FALSE, warnings |-> <<>>]

\* schedules.js lines 22-29 and days.js lines 22-23
Success(c, groups) ==
    [status |-> 200, success |-> TRUE,
     warnings |-> IF endpoint = "days" THEN <<>>
                  ELSE [i \in 1..Len(Warnings(groups)) |->
                           [event |-> Warnings(groups)[i],
                            message |-> "This element was not added because it was not formatted correctly."]]]

\* a call is still acting on the store
Running(d) ==
    \/ pc[d] \in {"await", "timer"}
    \/ \E i \in 1..Len(ops[d]) : ops[d][i].state = "sent"

\* LoopHead leaving the loop after initialLength passes
LoopHead_FixedCount(c, q, o, n, groups) ==
    IF q = <<>> \/ Len(reports[c]) >= n
    THEN /\ pc' = [pc EXCEPT ![c] = "done"]
         /\ summary' = [summary EXCEPT ![c] = n]
         /\ response' = [response EXCEPT ![c] = Success(c, groups)]
         /\ promises' = [promises EXCEPT ![c] = q]
         /\ ops' = [ops EXCEPT ![c] = o]
         /\ current' = [current EXCEPT ![c] = 0]
         /\ UNCHANGED reports
    ELSE LET e == q[Len(q)]
         IN  /\ reports' = [reports EXCEPT ![c] =
                    Append(@, [done |-> n - Len(q) + 1, total |-> n, working |-> e.label])]
             /\ promises' = [promises EXCEPT ![c] = SubSeq(q, 1, Len(q) - 1)]
             /\ current' = [current EXCEPT ![c] = e.op]
             /\ ops' = [ops EXCEPT ![c] =
                    IF o[e.op].kind = "update" THEN [o EXCEPT ![e.op].state = "sent"] ELSE o]
             /\ pc' = [pc EXCEPT ![c] = "await"]
             /\ UNCHANGED <<summary, response>>

\* lines 112-121 / 273-287: one pass of the loop head on the array q, or the exit
LoopHead(c, q, o, n, groups) ==
    IF q = <<>>
    THEN /\ pc' = [pc EXCEPT ![c] = "done"]
         /\ summary' = [summary EXCEPT ![c] = n]
         /\ response' = [response EXCEPT ![c] = Success(c, groups)]
         /\ promises' = [promises EXCEPT ![c] = q]
         /\ ops' = [ops EXCEPT ![c] = o]
         /\ current' = [current EXCEPT ![c] = 0]
         /\ UNCHANGED reports
    ELSE LET e == q[Len(q)]
         IN  /\ reports' = [reports EXCEPT ![c] =
                    Append(@, [done |-> n - Len(q) + 1, total |-> n, working |-> e.label])]
             /\ promises' = [promises EXCEPT ![c] = SubSeq(q, 1, Len(q) - 1)]
             /\ current' = [current EXCEPT ![c] = e.op]
             \* awaiting the query of a findOneAndUpdate is what sends it
             /\ ops' = [ops EXCEPT ![c] =
                    IF o[e.op].kind = "update" THEN [o EXCEPT ![e.op].state = "sent"] ELSE o]
             /\ pc' = [pc EXCEPT ![c] = "await"]
             /\ UNCHANGED <<summary, response>>

Throw(c, o) ==
    /\ pc' = [pc EXCEPT ![c] = "failed"]
    /\ response' = [response EXCEPT ![c] = Failure]
    /\ ops' = [ops EXCEPT ![c] = o]
    /\ UNCHANGED <<promises, current, reports, summary>>

Begin(c, rows) ==
    \* the two requests are alike: request 1 is the one that arrives first
    /\ c = 1 \/ pc[1] # "idle"
    /\ Len(rows) + Len(body[3 - c]) <= MaxRows
    /\ body' = [body EXCEPT ![c] = rows]
    /\ pred' = [pred EXCEPT ![c] = {d \in Calls \ {c} : pc[d] # "idle" /\ ~Running(d)}]
    /\ UNCHANGED <<endpoint, collection>>

\* POST /api/upload/days: parseAndUpdateDays up to its first await
StartDays(c) ==
    /\ endpoint = "days"
    /\ pc[c] = "idle"
    /\ \E rows \in DayBodies :
       /\ Begin(c, rows)
       /\ LET batch == DaysBatchOf[rows]
              o == [i \in 1..Len(batch.docs) |-> SaveOp(batch.docs[i])]
              q == [i \in 1..Len(batch.docs) |-> Entry(i, batch.docs[i].date)]
          IN  /\ UNCHANGED schedules
              /\ IF batch.threw
                 THEN Throw(c, o) /\ UNCHANGED initialLength
                 ELSE /\ initialLength' = [initialLength EXCEPT ![c] = Len(q)]
                      /\ LoopHead(c, q, o, Len(q), <<>>)

\* POST /api/upload/schedules: parseAndUpdateSchedules up to its first await
StartSchedules(c) ==
    /\ endpoint = "schedules"
    /\ pc[c] = "idle"
    /\ \E rows \in EventBodies :
       /\ Begin(c, rows)
       /\ IF \E i \in 1..Len(rows) : EventRowThrows(rows[i])
          THEN Throw(c, <<>>) /\ UNCHANGED <<initialLength, schedules>>
          ELSE LET groups == SortedSchedulesOf[rows]
                   saved == SavedSchedules(groups)
                   o == [i \in 1..Len(saved) |-> SaveOp(saved[i])]
                   q == [i \in 1..Len(saved) |-> Entry(i, saved[i].name)]
               IN  /\ schedules' = [schedules EXCEPT ![c] = groups]
                   /\ initialLength' = [initialLength EXCEPT ![c] = Len(q)]
                   /\ LoopHead(c, q, o, Len(q), groups)

\* the store carries out a save()
StoreInsert(c, i) ==
    /\ i \in 1..Len(ops[c])
    /\ ops[c][i].kind = "insert" /\ ops[c][i].state = "sent"
    /\ \/ LET r == InsertOne(collection, ops[c][i].doc)
          IN  /\ collection' = r.coll
              \* a save() that succeeds has no callback to run: its promise is fulfilled
              /\ ops' = [ops EXCEPT ![c][i].state = IF r.result = "ok" THEN "settled"
                                                    ELSE "answered",
                                    ![c][i].result = r.result]
       \/ /\ UNCHANGED collection
          /\ ops' = [ops EXCEPT ![c][i].state = "answered", ![c][i].result = "err"]
    /\ UNCHANGED <<endpoint, body, pc, schedules, promises, current, initialLength,
                   reports, summary, response, pred>>

\* SaveSettles with a .catch that drops the duplicate-key error and enqueues nothing
SaveSettles_IgnoreDuplicate(c, i) ==
    /\ pc[c] \in {"await", "timer", "failed"}
    /\ i \in 1..Len(ops[c])
    /\ ops[c][i].kind = "insert" /\ ops[c][i].state = "answered"
    /\ ops' = [ops EXCEPT ![c][i].state = "settled"]
    /\ UNCHANGED <<endpoint, collection, body, pc, schedules, promises, current,
                   initialLength, reports, summary, response, pred>>

\* SaveSettles with a .catch that enqueues the update whatever the error
SaveSettles_UpdateOnAnyError(c, i) ==
    /\ pc[c] \in {"await", "timer", "failed"}
    /\ i \in 1..Len(ops[c])
    /\ ops[c][i].kind = "insert" /\ ops[c][i].state = "answered"
    /\ ops' = [ops EXCEPT ![c] =
           Append([@ EXCEPT ![i].state = "settled"], UpdateOp(ops[c][i], i))]
    /\ promises' = [promises EXCEPT ![c] =
           Append(@, Entry(Len(ops[c]) + 1, KeyOf(ops[c][i].doc) \o <<" (update)">>))]
    /\ UNCHANGED <<endpoint, collection, body, pc, schedules, current, initialLength,
                   reports, summary, response, pred>>

\* lines 94-105 / 256-266: the promise of a save() settles, its .catch runs
SaveSettles(c, i) ==
    /\ pc[c] \in {"await", "timer", "failed"}
    /\ i \in 1..Len(ops[c])
    /\ ops[c][i].kind = "insert" /\ ops[c][i].state = "answered"
    /\ IF ops[c][i].result = "dup"
       \* e.code == 11000
       THEN /\ ops' = [ops EXCEPT ![c] =
                   Append([@ EXCEPT ![i].state = "settled"], UpdateOp(ops[c][i], i))]
            /\ promises' = [promises EXCEPT ![c] =
                   Append(@, Entry(Len(ops[c]) + 1, KeyOf(ops[c][i].doc) \o <<" (update)">>))]
       ELSE /\ ops' = [ops EXCEPT ![c][i].state = "settled"]
            /\ UNCHANGED promises
    /\ UNCHANGED <<endpoint, collection, body, pc, schedules, current, initialLength,
                   reports, summary, response, pred>>

\* the store carries out a findOneAndUpdate()
StoreUpdate(c, i) ==
    /\ i \in 1..Len(ops[c])
    /\ ops[c][i].kind = "update" /\ ops[c][i].state = "sent"
    /\ \/ /\ collection' = FindOneAndUpdate(collection, KeyOf(ops[c][i].doc), FallbackUpdate(ops[c][i].doc))
          /\ ops' = [ops EXCEPT ![c][i].state = "answered", ![c][i].result = "ok"]
       \/ /\ UNCHANGED collection
          /\ ops' = [ops EXCEPT ![c][i].state = "answered", ![c][i].result = "err"]
    /\ UNCHANGED <<endpoint, body, pc, schedules, promises, current, initialLength,
                   reports, summary, response, pred>>

\* the promise awaited at line 116 / 277 has settled
Settled(op) ==
    IF op.kind = "insert" THEN op.state = "settled" ELSE op.state = "answered"

\* AwaitReturns with the rejection of the awaited promise dropped
AwaitReturns_NoThrow(c) ==
    /\ pc[c] = "await"
    /\ Settled(ops[c][current[c]])
    /\ pc' = [pc EXCEPT ![c] = "timer"]
    /\ UNCHANGED <<ops, promises, current, reports, summary, response>>
    /\ UNCHANGED <<endpoint, collection, body, schedules, initialLength, pred>>

\* line 116 / 277: the await returns, or throws into the handler's catch
AwaitReturns(c) ==
    /\ pc[c] = "await"
    /\ Settled(ops[c][current[c]])
    /\ IF ops[c][current[c]].result = "err"
       THEN Throw(c, ops[c])
       ELSE /\ pc' = [pc EXCEPT ![c] = "timer"]
            /\ UNCHANGED <<ops, promises, current, reports, summary, response>>
    /\ UNCHANGED <<endpoint, collection, body, schedules, initialLength, pred>>

\* line 117 / 278: the 5 ms timer fires and the loop goes round
TimerFires(c) ==
    /\ pc[c] = "timer"
    /\ LoopHead(c, promises[c], ops[c], initialLength[c], schedules[c])
    /\ UNCHANGED <<endpoint, collection, body, schedules, initialLength, pred>>

\* what a call that has started, or the store on its behalf, may do next
Drain(c) ==
    \/ AwaitReturns(c)
    \/ TimerFires(c)
    \/ \E i \in 1..(2 * MaxRows) :
          \/ StoreInsert(c, i)
          \/ SaveSettles(c, i)
          \/ StoreUpdate(c, i)

Step(c) ==
    \/ StartDays(c)
    \/ StartSchedules(c)
    \/ Drain(c)

Next == \E c \in Calls : Step(c)

Spec == Init /\ [][Next]_vars

\* one upload at a time
NextAlone == Step(1)

\* every store operation is answered, every settled promise is noticed, the timer fires
FairSpec == Init /\ [][NextAlone]_vars /\ WF_vars(Drain(1))

(***************************************************************************)
(* Notions the properties share                                            *)
(***************************************************************************)
\* the positions of the collection that hold a document with this key
Holding(key) == {i \in 1..Len(collection) : KeyOf(collection[i]) = key}

\* call c ran with no other call beside it, and none after it
Alone(c) == \A d \in Calls \ {c} : pc[d] = "idle" \/ d \in pred[c]

\* the store operations of c that failed with something else than a duplicate key
Failed(c) == {i \in 1..Len(ops[c]) : ops[c][i].result = "err"}

\* the rows of the body make the mapping throw before the batch is built
BodyThrows(c) ==
    IF endpoint = "days" THEN DaysBatch(body[c]).threw
    ELSE \E i \in 1..Len(body[c]) : EventRowThrows(body[c][i])

HasDigit(s) == \E i \in 1..Len(s) : s[i] \in Digits

(***************************************************************************)
(* C1: orphan rows are never persisted: no ingestion issues an insert or   *)
(* an update to the Schedules store for the group named "ORPHAN".          *)
(***************************************************************************)
C1_OrphanNeverPersisted ==
    endpoint = "schedules" =>
        \A c \in Calls : \A i \in 1..Len(ops[c]) : KeyOf(ops[c][i].doc) # ORPHAN

(***************************************************************************)
(* C4: the events of every ScheduleDocument a call builds are in ascending *)
(* order of (hour24, minute), where 12 AM is hour 0, 12 PM is hour 12 and  *)
(* every other PM hour gets +12.                                           *)
(***************************************************************************)
C4_EventsChronological ==
    LET Hour24(t) ==
            LET hm == Split(t, " ")[1]
                half == Split(t, " ")[2]
                h == ParseInt(Split(hm, ":")[1])
            IN  IF half = <<"AM">> /\ h = 12 THEN 0
                ELSE IF half = <<"PM">> /\ h # 12 THEN h + 12
                ELSE h
        Minute(t) == ParseInt(Split(Split(t, " ")[1], ":")[2])
        Before(a, b) ==
            \/ Hour24(a.startTime) < Hour24(b.startTime)
            \/ /\ Hour24(a.startTime) = Hour24(b.startTime)
               /\ Minute(a.startTime) <= Minute(b.startTime)
    IN  endpoint = "schedules" =>
            \A c \in Calls : \A i \in 1..Len(ops[c]) :
                ops[c][i].kind = "insert" =>
                    \A j, k \in 1..Len(ops[c][i].doc.schedule) :
                        j < k => Before(ops[c][i].doc.schedule[j], ops[c][i].doc.schedule[k])

(***************************************************************************)
(* C5: every progress report shows a count of at least 1 that does not     *)
(* exceed the reported total and does not go down from one report to the   *)
(* next; the total is the number of operations enqueued so far (initial    *)
(* inserts plus update fallbacks); the final summary counts every          *)
(* operation performed.                                                    *)
(***************************************************************************)
C5_ProgressCountsEnqueued ==
    [][\A c \in Calls :
          /\ reports'[c] # reports[c] =>
                LET r == reports'[c][Len(reports'[c])]
                IN  /\ r.total = Len(ops'[c])
                    /\ r.done >= 1
                    /\ r.done <= r.total
                    /\ Len(reports[c]) > 0 => r.done >= reports[c][Len(reports[c])].done
          /\ summary'[c] # summary[c] => summary'[c] = Len(ops'[c])]_vars

(***************************************************************************)
(* C7: the warnings parseAndUpdateSchedules returns hold exactly one entry *)
(* for each row whose Day is not "-" and has no digit, and no entry for    *)
(* any other row, whatever its Block Schedule.                             *)
(***************************************************************************)
C7_WarningsAreTheDigitlessRows ==
    endpoint = "schedules" =>
        \A c \in Calls :
            pc[c] = "done" =>
                LET digitless == {i \in 1..Len(body[c]) :
                                     body[c][i].Day # <<"-">> /\ ~HasDigit(body[c][i].Day)}
                    w == response[c].warnings
                IN  /\ Len(w) = Cardinality(digitless)
                    /\ \A i \in digitless :
                          \E j \in 1..Len(w) : w[j].event = generateScheduleEvent(body[c][i])

(***************************************************************************)
(* C2: when parseAndUpdateDays has returned on a body whose mapped rows    *)
(* have pairwise distinct dates, with no other call beside or after it,    *)
(* the store holds exactly one DayRecord for each of those dates and its   *)
(* schedule is the one mapped from that row; so of two uploads one after   *)
(* the other with the same date, the second one's schedule is stored.      *)
(***************************************************************************)
C2_DaysUpserted ==
    endpoint = "days" =>
        \A c \in Calls :
            LET docs == DaysBatch(body[c]).docs
            IN  ( /\ pc[c] = "done"
                  /\ Alone(c)
                  /\ \A i, j \in 1..Len(docs) : i < j => docs[i].date # docs[j].date )
                => \A i \in 1..Len(docs) :
                      /\ Cardinality(Holding(docs[i].date)) = 1
                      /\ \A k \in Holding(docs[i].date) : collection[k] = docs[i]

\* the second of two uploads, one after the other, replaced the first one's schedule
C2_Witness ==
    /\ endpoint = "days"
    /\ pc[1] = "done" /\ pc[2] = "done" /\ pred[2] = {1}
    /\ Len(ops[1]) = 1 /\ Len(ops[2]) = 2
    /\ KeyOf(ops[1][1].doc) = KeyOf(ops[2][1].doc)
    /\ ops[1][1].doc.schedule # ops[2][1].doc.schedule
    /\ \E k \in 1..Len(collection) : collection[k] = ops[2][1].doc

C6_UpdateOnlyAfterDuplicate ==
    \A c \in Calls : \A i \in 1..Len(ops[c]) :
        ops[c][i].kind = "update" =>
            LET o == ops[c][i].origin
            IN  /\ o \in 1..Len(ops[c])
                /\ ops[c][o].kind = "insert"
                /\ KeyOf(ops[c][o].doc) = KeyOf(ops[c][i].doc)
                /\ ops[c][o].state = "settled"
                /\ ops[c][o].result = "dup"
                /\ \A j \in 1..Len(ops[c]) :
                      (ops[c][j].kind = "update" /\ ops[c][j].origin = o) => j = i

\* an update has been sent to the store
C6_Witness ==
    \E c \in Calls : \E i \in 1..Len(ops[c]) :
        ops[c][i].kind = "update" /\ ops[c][i].state = "sent"

(***************************************************************************)
(* C8: with two calls of the same file type running together on the same  *)
(* key, the store never holds more than one document for a key, every      *)
(* write the store applies leaves there the whole document of the call     *)
(* that wrote it, and once both calls have returned the stored document is *)
(* the document mapped by one of the two uploads.                          *)
(***************************************************************************)
C8_LastWriteWins ==
    /\ [](\A c \in Calls : \A i \in 1..Len(ops[c]) :
              Cardinality(Holding(KeyOf(ops[c][i].doc))) <= 1)
    /\ [](\A c \in Calls : \A i \in 1..Len(ops[c]) :
              (pc[1] = "done" /\ pc[2] = "done") =>
                  /\ Cardinality(Holding(KeyOf(ops[c][i].doc))) = 1
                  /\ \A k \in Holding(KeyOf(ops[c][i].doc)) :
                        \E d \in Calls : \E j \in 1..Len(ops[d]) :
                            ops[d][j].kind = "insert" /\ collection[k] = ops[d][j].doc)
    /\ [][\A c \in Calls : \A i \in 1..Len(ops[c]) :
              (ops[c][i].state = "sent" /\ ops'[c][i].result = "ok") =>
                  LET mapped == IF ops[c][i].kind = "insert" THEN ops[c][i].doc
                                ELSE ops[c][ops[c][i].origin].doc
                  IN  \A k \in 1..Len(collection') :
                         KeyOf(collection'[k]) = KeyOf(mapped) => collection'[k] = mapped]_vars

\* two overlapping calls wrote the same key with different documents and both returned
C8_Witness ==
    /\ pc[1] = "done" /\ pc[2] = "done" /\ pred[2] = {}
    /\ Len(ops[1]) >= 1 /\ Len(ops[2]) = 2
    /\ KeyOf(ops[1][1].doc) = KeyOf(ops[2][1].doc) /\ ops[1][1].doc # ops[2][1].doc
    /\ \E k \in 1..Len(collection) : collection[k] = ops[1][1].doc

(***************************************************************************)
(* C9: if every store operation is answered the drain loop ends, and when  *)
(* the call returns the array is empty, every insert and every update      *)
(* enqueued has been carried out and answered, and nothing is enqueued     *)
(* after the return.                                                       *)
(***************************************************************************)
C9_DrainTerminatesEmpty ==
    /\ \A c \in Calls : (pc[c] \in {"await", "timer"}) ~> (pc[c] \in {"done", "failed"})
    /\ [](\A c \in Calls :
             pc[c] = "done" =>
                /\ promises[c] = <<>>
                /\ \A i \in 1..Len(ops[c]) : Settled(ops[c][i])
                /\ \A i \in 1..Len(ops[c]) :
                      ops[c][i].result = "dup" =>
                         \E j \in 1..Len(ops[c]) :
                            ops[c][j].origin = i /\ ops[c][j].result = "ok")
    /\ [][\A c \in Calls :
             pc[c] = "done" => (promises'[c] = promises[c] /\ ops'[c] = ops[c])]_vars

\* a call returned after draining two update fallbacks enqueued during the loop
C9_Witness ==
    \E c \in Calls :
        /\ pc[c] = "done"
        /\ Len(ops[c]) = 4
        /\ Len(reports[c]) = 4

(***************************************************************************)
(* C10 as stated: when a days body has two rows with the same date and     *)
(* different captions, the schedule stored for that date after the call    *)
(* is the one of the later row.                                            *)
(***************************************************************************)
C10_LaterRowWins ==
    endpoint = "days" =>
        \A c \in Calls :
            LET docs == DaysBatch(body[c]).docs
            IN  (pc[c] = "done" /\ Alone(c)) =>
                   \A i, j \in 1..Len(docs) :
                      ( /\ i < j
                        /\ docs[i].date = docs[j].date
                        /\ \A k \in (j + 1)..Len(docs) : docs[k].date # docs[j].date )
                      => \A k \in Holding(docs[j].date) : collection[k] = docs[j]

(***************************************************************************)
(* C10 as amended: when a days body has two rows with the same date and    *)
(* different captions, the store holds after the call exactly one record   *)
(* for that date, with the schedule of one of the rows of that date; which *)
(* one depends on the order of the store's answers.                        *)
(***************************************************************************)
C10_SomeRowWins ==
    endpoint = "days" =>
        \A c \in Calls :
            LET docs == DaysBatch(body[c]).docs
            IN  (pc[c] = "done" /\ Alone(c)) =>
                   \A i \in 1..Len(docs) :
                      /\ Cardinality(Holding(docs[i].date)) = 1
                      /\ \A k \in Holding(docs[i].date) :
                            \E j \in 1..Len(docs) : collection[k] = docs[j]

\* a call with two rows of one date returned and the earlier row's schedule is stored
C10_Witness ==
    /\ endpoint = "days"
    /\ pc[1] = "done" /\ pc[2] = "idle"
    /\ Len(DaysBatch(body[1]).docs) = 2
    /\ DaysBatch(body[1]).docs[1].date = DaysBatch(body[1]).docs[2].date
    /\ DaysBatch(body[1]).docs[1].schedule # DaysBatch(body[1]).docs[2].schedule
    /\ \E k \in 1..Len(collection) : collection[k] = DaysBatch(body[1]).docs[1]

====
